---- MODULE Spec2Model ----
(***************************************************************************)
(* A model of GitRepoToJson (src/main.py): the object's fields, the stages *)
(* of run(), the directory walk of parse_files, the three serializers and  *)
(* get_repo_name.  Text is a sequence of one-character strings, so that    *)
(* replace, basename, escaping and line splitting are computed.            *)
(***************************************************************************)
EXTENDS Naturals, Sequences, FiniteSets, TLC

VARIABLES
    repo,        \* self.repo: "None", "Repo", or "Unset" once `del self.repo` ran
    repo_dir,    \* self.repo_dir: 0 for None, else the id of a temporary directory
    tmpdirs,     \* the temporary directories present on disk
    pc,          \* the position of run()
    runs,        \* how many times run() was invoked on the object
    raised,      \* the exception in flight inside run()'s try block
    outcome,     \* what the last run() gave its caller
    calls,       \* the methods the current run() invoked, in order
    met,         \* what each stage of the current run()'s try block met
    artifacts,   \* the output files the current run() wrote
    failed,      \* the serializers whose write failed and logged an error
    newdir,      \* the directory clone_repo allocated in the current run (0: none)
    rmtreed,     \* the directories clean_up handed to shutil.rmtree in the current run
    tree,        \* parse_files: the files below repo_dir, each a sequence of names
    unreadable,  \* parse_files: the files whose open/read/decode fails
    file_list,   \* parse_files: the list it returns
    warnings,    \* parse_files: the files a warning was logged for
    sources,     \* parse_files: the file each record of file_list was made from
    scanned,     \* parse_files: whether it has returned
    data,        \* serializers: the list of records handed to them
    json_file,   \* serializers: the text of <name>.json
    md_file,     \* serializers: the text of <name>.md
    txt_file,    \* serializers: the text of <name>.txt
    wpc,         \* serializers: which of them have run
    repo_url,    \* __init__: the location string
    repo_name,   \* __init__: what get_repo_name returned
    ctor         \* __init__: "new", "ok", or "ValueError"

runVars == <<repo, repo_dir, tmpdirs, pc, runs, raised, outcome, calls, met,
             artifacts, failed, newdir, rmtreed>>
scanVars == <<tree, unreadable, file_list, warnings, sources, scanned>>
serVars == <<data, json_file, md_file, txt_file, wpc>>
nameVars == <<repo_url, repo_name, ctor>>
vars == <<runVars, scanVars, serVars, nameVars>>

\* ------------------------------------------------------------------ bounds

MaxRuns == 2

\* ------------------------------------------------------------- the object

\* __init__: repo and repo_dir are None, nothing has run.
InitRun ==
    /\ repo = "None"
    /\ repo_dir = 0
    /\ tmpdirs = {}
    /\ pc = "idle"
    /\ runs = 0
    /\ raised = "none"
    /\ outcome = "none"
    /\ calls = <<>>
    /\ met = <<>>
    /\ artifacts = {}
    /\ failed = {}
    /\ newdir = 0
    /\ rmtreed = {}

\* The exceptions the stages can meet.  OSError, UnicodeEncodeError and
\* GitCommandError derive from Exception; KeyboardInterrupt does not.
IsException(e) == e \in {"OSError", "UnicodeEncodeError", "GitCommandError"}

\* A handler that names OSError alone: an encoding error escapes it.
ExceptOSErrorOnly(e) == e = "OSError"

\* `except Exception as e:` of the three serializers.
ExceptCatches(e) == IsException(e)

\* What a write can meet: nothing, a write error, or an interrupt.
WriteEvents == {"none", "OSError", "UnicodeEncodeError", "KeyboardInterrupt"}

\* run(): entering the try block.
RunBegin ==
    /\ pc \in {"idle", "done"}
    /\ runs < MaxRuns
    /\ pc' = "clone"
    /\ runs' = runs + 1
    /\ raised' = "none"
    /\ outcome' = "running"
    /\ calls' = <<>>
    /\ met' = <<>>
    /\ artifacts' = {}
    /\ failed' = {}
    /\ newdir' = 0
    /\ rmtreed' = {}
    /\ UNCHANGED <<repo, repo_dir, tmpdirs>>

\* clone_repo: tempfile.mkdtemp(), then Repo.clone_from(); either may raise.
clone_repo ==
    /\ pc = "clone"
    /\ calls' = Append(calls, "clone_repo")
    /\ \E ev \in {"ok", "mkdtemp", "clone_from"} :
         IF ev = "mkdtemp"
         THEN /\ raised' = "OSError"
              /\ met' = Append(met, "OSError")
              /\ pc' = "cleanup"
              /\ UNCHANGED <<repo, repo_dir, tmpdirs, newdir>>
         ELSE /\ repo_dir' = runs
              /\ newdir' = runs
              /\ tmpdirs' = tmpdirs \cup {runs}
              /\ IF ev = "clone_from"
                 THEN /\ raised' = "GitCommandError"
                      /\ met' = Append(met, "GitCommandError")
                      /\ pc' = "cleanup"
                      /\ UNCHANGED repo
                 ELSE /\ repo' = "Repo"
                      /\ met' = Append(met, "none")
                      /\ pc' = "parse"
                      /\ UNCHANGED raised
    /\ UNCHANGED <<runs, outcome, artifacts, failed, rmtreed>>

\* parse_files as run() sees it: it returns the list, or is interrupted (its
\* own read errors are caught inside, see parse_files below).
RunParse ==
    /\ pc = "parse"
    /\ calls' = Append(calls, "parse_files")
    /\ \E ev \in {"none", "KeyboardInterrupt"} :
         /\ met' = Append(met, ev)
         /\ IF ev = "none"
            THEN pc' = "json" /\ UNCHANGED raised
            ELSE pc' = "cleanup" /\ raised' = ev
    /\ UNCHANGED <<repo, repo_dir, tmpdirs, runs, outcome, artifacts, failed,
                   newdir, rmtreed>>

\* The body shared by write_to_json, write_to_markdown and write_to_txt: open
\* and write inside try, `except Exception` logs the error and returns.
Write(at, name, ext, next) ==
    /\ pc = at
    /\ calls' = Append(calls, name)
    /\ \E ev \in WriteEvents :
         /\ met' = Append(met, ev)
         /\ IF ev = "none"
            THEN /\ artifacts' = artifacts \cup {ext}
                 /\ pc' = next
                 /\ UNCHANGED <<raised, failed>>
            ELSE IF ExceptCatches(ev)
            THEN /\ failed' = failed \cup {ext}
                 /\ pc' = next
                 /\ UNCHANGED <<raised, artifacts>>
            ELSE /\ raised' = ev
                 /\ pc' = "cleanup"
                 /\ UNCHANGED <<artifacts, failed>>
    /\ UNCHANGED <<repo, repo_dir, tmpdirs, runs, outcome, newdir, rmtreed>>

write_to_json == Write("json", "write_to_json", "json", "md")

write_to_markdown == Write("md", "write_to_markdown", "md", "txt")

write_to_txt == Write("txt", "write_to_txt", "txt", "cleanup")

\* `if self.repo:` reads the attribute: an AttributeError once it was deleted.
CleanUpRaises == repo = "Unset"

\* clean_up, in run()'s finally: `del self.repo` when it is set, then
\* shutil.rmtree(repo_dir, ignore_errors=True) when repo_dir is set.  An
\* exception of clean_up replaces the one in flight.
clean_up ==
    /\ pc = "cleanup"
    /\ calls' = Append(calls, "clean_up")
    /\ pc' = "done"
    /\ IF CleanUpRaises
       THEN /\ outcome' = "AttributeError"
            /\ UNCHANGED <<repo, tmpdirs, rmtreed>>
       ELSE /\ repo' = IF repo = "Repo" THEN "Unset" ELSE repo
            /\ outcome' = IF raised = "none" THEN "ok" ELSE raised
            /\ IF repo_dir # 0
               THEN /\ rmtreed' = rmtreed \cup {repo_dir}
                    /\ \E removed \in BOOLEAN :
                         tmpdirs' = IF removed THEN tmpdirs \ {repo_dir} ELSE tmpdirs
               ELSE UNCHANGED <<tmpdirs, rmtreed>>
    /\ UNCHANGED <<repo_dir, runs, raised, met, artifacts, failed, newdir>>

\* ------------------------------------------------------------------- text

\* str.startswith with a one-character prefix.
StartsWith(s, c) == Len(s) > 0 /\ s[1] = c

\* str.replace(old, new) for one-character old and new.
Replace(s, old, new) == [i \in 1..Len(s) |-> IF s[i] = old THEN new ELSE s[i]]

\* str.rfind(c), 1-based; 0 when c does not occur.
RFind(s, c) ==
    LET at == {i \in 1..Len(s) : s[i] = c}
    IN  IF at = {} THEN 0 ELSE CHOOSE i \in at : \A j \in at : j <= i

\* str.find(c, from), 1-based; 0 when c does not occur at or after from.
Find(s, c, from) ==
    LET at == {i \in from..Len(s) : s[i] = c}
    IN  IF at = {} THEN 0 ELSE CHOOSE i \in at : \A j \in at : i <= j

\* c in s
Has(s, c) == \E i \in 1..Len(s) : s[i] = c

\* os.path.join(a, b) on POSIX, for b that does not start with '/'.
PathJoin(a, b) == a \o <<"/">> \o b

\* os.path.relpath(path, start) for a normalized path below start: the
\* components after start joined by '/'.
RelPath(path, start) == SubSeq(path, Len(start) + 2, Len(path))

\* os.path.basename on POSIX: p[p.rfind('/') + 1:].
Basename(p) == SubSeq(p, RFind(p, "/") + 1, Len(p))

\* -------------------------------------------------------------- parse_files

MaxDepth == 2
MaxFiles == 3

\* The names the scanned trees are built from: plain, hidden, and one file
\* name holding a backslash (legal on POSIX file systems).
FileNames == { <<"b">>, <<".", "g">>, <<"a", "\\", "b">> }
DirNames == { <<"a">>, <<".", "h">> }

\* The order in which a directory lists its entries.
NameOrder == << <<"a">>, <<"a", "\\", "b">>, <<"b">>, <<".", "g">>, <<".", "h">> >>

\* The text of self.repo_dir, as mkdtemp returns it.
RepoRoot == <<"/", "t">>

\* What is on disk in every file.
DiskContent == <<"x">>

RECURSIVE DirPaths(_)
\* The directories at depth k below the root, each a sequence of names.
DirPaths(k) ==
    IF k = 0 THEN { <<>> }
    ELSE { Append(d, n) : d \in DirPaths(k - 1), n \in DirNames }

\* Every file location down to MaxDepth: its directory names, then its name.
AllFiles ==
    UNION { { Append(d, f) : d \in DirPaths(k), f \in FileNames } : k \in 0..(MaxDepth - 1) }

RECURSIVE UpTo(_, _)
\* The subsets of S with at most k elements.
UpTo(S, k) ==
    IF k = 0 THEN { {} }
    ELSE LET T == UpTo(S, k - 1) IN T \cup { t \cup {x} : t \in T, x \in S }

IsPrefix(d, p) == Len(d) <= Len(p) /\ SubSeq(p, 1, Len(d)) = d

\* os.walk's `files` for directory d of tree t.
WalkFiles(t, d) == { p[Len(d) + 1] : p \in { q \in t : IsPrefix(d, q) /\ Len(q) = Len(d) + 1 } }

\* os.walk's `dirs` for directory d of tree t.
WalkDirs(t, d) == { p[Len(d) + 1] : p \in { q \in t : IsPrefix(d, q) /\ Len(q) > Len(d) + 1 } }

\* A set of names as the list the directory listing gives.
Listing(S) ==
    LET idx == { i \in 1..Len(NameOrder) : NameOrder[i] \in S }
        f[k \in 0..Len(NameOrder)] ==
            IF k = 0 THEN <<>>
            ELSE IF k \in idx THEN Append(f[k - 1], NameOrder[k]) ELSE f[k - 1]
    IN  f[Len(NameOrder)]

\* The filtered list bound to a new name: os.walk still descends everywhere.
KeptDirsUnpruned(dirs) == dirs

\* dirs[:] = [d for d in dirs if not d.startswith('.')]
KeptDirs(dirs) == { n \in dirs : ~StartsWith(n, ".") }

\* if file.startswith('.'): continue
SkipFile(file) == StartsWith(file, ".")

RECURSIVE RootText(_)
\* os.walk's `root` for directory d: repo_dir joined with d's names.
RootText(d) ==
    IF d = <<>> THEN RepoRoot
    ELSE PathJoin(RootText(SubSeq(d, 1, Len(d) - 1)), d[Len(d)])

\* The except branch without `content = ""`: the content is not emptied.
ReadFileNoReset(u, p) == [content |-> DiskContent, warned |-> p \in u]

\* open(file_path, 'r', encoding='utf-8') ... f.read(), with the except
\* branch: the content, and whether a warning was logged.
ReadFile(u, p) ==
    IF p \in u THEN [content |-> <<>>, warned |-> TRUE]
    ELSE [content |-> DiskContent, warned |-> FALSE]

\* The body of the inner loop for one file of directory d: what it appends.
\* `src` is the file the record was made from (not a field of the record).
FileEntry(u, d, file) ==
    IF SkipFile(file) THEN <<>>
    ELSE LET file_path == PathJoin(RootText(d), file)
             relative_path == RelPath(file_path, RepoRoot)
             rd == ReadFile(u, Append(d, file))
         IN  << [filename |-> file,
                 path |-> Replace(relative_path, "\\", "/"),
                 content |-> rd.content,
                 warned |-> rd.warned,
                 src |-> Append(d, file)] >>

RECURSIVE Concat(_)
\* The concatenation of a sequence of sequences.
Concat(ss) == IF ss = <<>> THEN <<>> ELSE Head(ss) \o Concat(Tail(ss))

RECURSIVE Walk(_, _, _)
\* for root, dirs, files in os.walk(self.repo_dir): top-down, the pruned dirs
\* are not descended into.
Walk(t, u, d) ==
    LET files == Listing(WalkFiles(t, d))
        dirs == Listing(KeptDirs(WalkDirs(t, d)))
    IN  Concat([i \in 1..Len(files) |-> FileEntry(u, d, files[i])])
        \o Concat([i \in 1..Len(dirs) |-> Walk(t, u, Append(d, dirs[i]))])

\* The record as parse_files appends it.
AsRecord(e) == [filename |-> e.filename, path |-> e.path, content |-> e.content]

\* parse_files on tree t whose files u cannot be read: the returned list.
parse_files(t, u) ==
    LET w == Walk(t, u, <<>>) IN [i \in 1..Len(w) |-> AsRecord(w[i])]

\* The files parse_files made its records from, in order.
Sources(t, u) ==
    LET w == Walk(t, u, <<>>) IN [i \in 1..Len(w) |-> w[i].src]

\* The files parse_files logged a warning for, in order.
Warnings(t, u) ==
    LET w == Walk(t, u, <<>>)
    IN  Concat([i \in 1..Len(w) |-> IF w[i].warned THEN << w[i].src >> ELSE <<>>])

InitScan ==
    /\ tree \in UpTo(AllFiles, MaxFiles)
    /\ unreadable \in SUBSET tree
    /\ file_list = <<>>
    /\ warnings = <<>>
    /\ sources = <<>>
    /\ scanned = FALSE

IdleScan ==
    /\ tree = {}
    /\ unreadable = {}
    /\ file_list = <<>>
    /\ warnings = <<>>
    /\ sources = <<>>
    /\ scanned = FALSE

\* One call of parse_files.
ParseFiles ==
    /\ ~scanned
    /\ file_list' = parse_files(tree, unreadable)
    /\ warnings' = Warnings(tree, unreadable)
    /\ sources' = Sources(tree, unreadable)
    /\ scanned' = TRUE
    /\ UNCHANGED <<tree, unreadable>>

\* -------------------------------------------------------------- serializers

MaxRecords == 2

\* The backquote character (the module's string syntax has no literal for it).
BQ == "BACKQUOTE"

\* The literal text of the three writers.
MdTitle == <<"#", " ", "R", "e", "p", "o", "s", "i", "t", "o", "r", "y", ":", " ">>
MdHeading == <<"#", "#", " ", "F", "i", "l", "e", " ", "L", "i", "s", "t", "\n", "\n">>
MdTableHead == <<"|", " ", "F", "i", "l", "e", "n", "a", "m", "e", " ", "|", " ", "P", "a", "t", "h", " ", "|", " ", "C", "o", "n", "t", "e", "n", "t", " ", "|", "\n">>
MdTableRule == <<"|", " ", "-", "-", "-", " ", "|", " ", "-", "-", "-", " ", "|", " ", "-", "-", "-", " ", "|", "\n">>
MdFenceOpen == <<BQ, BQ, BQ, "t", "e", "x", "t", "\n">>
MdFenceClose == <<"\n", BQ, BQ, BQ, "\n", "\n">>
TxtTitle == <<"R", "e", "p", "o", "s", "i", "t", "o", "r", "y", ":", " ">>
TxtHeading == <<"F", "i", "l", "e", " ", "L", "i", "s", "t", ":", "\n", "\n">>
TxtFilename == <<"F", "i", "l", "e", "n", "a", "m", "e", ":", " ">>
TxtPath == <<"P", "a", "t", "h", ":", " ">>
TxtContent == <<"C", "o", "n", "t", "e", "n", "t", ":", "\n">>
JsonFilenameKey == <<"\"", "f", "i", "l", "e", "n", "a", "m", "e", "\"", ":", " ">>
JsonPathKey == <<"\"", "p", "a", "t", "h", "\"", ":", " ">>
JsonContentKey == <<"\"", "c", "o", "n", "t", "e", "n", "t", "\"", ":", " ">>

\* json.dumps of one character of a str, ensure_ascii=False.
JsonEscape(c) ==
    IF c = "\"" THEN <<"\\", "\"">>
    ELSE IF c = "\\" THEN <<"\\", "\\">>
    ELSE IF c = "\n" THEN <<"\\", "n">>
    ELSE <<c>>

\* json.dumps of a str.
JsonString(s) == <<"\"">> \o Concat([i \in 1..Len(s) |-> JsonEscape(s[i])]) \o <<"\"">>

\* One record of the list, at indent 2.
JsonObject(item) ==
    <<" ", " ", "{", "\n", " ", " ", " ", " ">>
    \o JsonFilenameKey \o JsonString(item.filename) \o <<",", "\n", " ", " ", " ", " ">>
    \o JsonPathKey \o JsonString(item.path) \o <<",", "\n", " ", " ", " ", " ">>
    \o JsonContentKey \o JsonString(item.content) \o <<"\n", " ", " ", "}">>

\* json.dump(data, json_file, indent=2, ensure_ascii=False)
JsonDump(d) ==
    IF d = <<>> THEN <<"[", "]">>
    ELSE <<"[", "\n">>
         \o Concat([i \in 1..Len(d) |->
                JsonObject(d[i]) \o (IF i < Len(d) THEN <<",", "\n">> ELSE <<"\n">>)])
         \o <<"]">>

\* The two writes of write_to_markdown for one item.
MdItem(item) ==
    <<"|", " ">> \o item.filename \o <<" ", "|", " ">> \o item.path \o <<" ", "|", " ", "\n">>
    \o MdFenceOpen \o item.content \o MdFenceClose

\* What write_to_markdown writes for data d of repository `name`.
MarkdownText(name, d) ==
    MdTitle \o name \o <<"\n", "\n">> \o MdHeading \o MdTableHead \o MdTableRule
    \o Concat([i \in 1..Len(d) |-> MdItem(d[i])])

\* The four writes of write_to_txt for one item.
TxtItem(item) ==
    TxtFilename \o item.filename \o <<"\n">>
    \o TxtPath \o item.path \o <<"\n">>
    \o TxtContent
    \o item.content \o <<"\n", "\n">>

\* What write_to_txt writes for data d of repository `name`.
TxtText(name, d) ==
    TxtTitle \o name \o <<"\n", "\n">> \o TxtHeading
    \o Concat([i \in 1..Len(d) |-> TxtItem(d[i])])

\* The file contents the records are drawn from: plain text, the empty string
\* of an unreadable file, a Markdown fence followed by a table row, the three
\* labels of the TXT layout, and a quote with a backslash.
Contents == { <<"h", "i">>,
              <<>>,
              <<BQ, BQ, BQ, "\n", "|", " ", "x", " ", "|", " ", "y", " ", "|", " ">>,
              <<"F", "i", "l", "e", "n", "a", "m", "e", ":", " ", "x", "\n", "P", "a", "t", "h", ":", " ", "y", "\n", "C", "o", "n", "t", "e", "n", "t", ":", "\n", "z">>,
              <<"q", "\"", "\\">> }

\* The (filename, path) pairs the records are drawn from.
Idents == { [filename |-> <<"a">>, path |-> <<"a">>],
            [filename |-> <<"b">>, path |-> <<"d", "/", "b">>] }

Records == { [filename |-> n.filename, path |-> n.path, content |-> c] :
             n \in Idents, c \in Contents }

RECURSIVE SeqsUpTo(_, _)
\* The sequences over S of length at most k.
SeqsUpTo(S, k) ==
    IF k = 0 THEN { <<>> }
    ELSE LET T == SeqsUpTo(S, k - 1) IN T \cup { Append(t, x) : t \in T, x \in S }

\* A scan result: its paths are pairwise distinct.
DistinctPaths(d) == \A i, j \in 1..Len(d) : i # j => d[i].path # d[j].path

InitSer ==
    /\ data \in { d \in SeqsUpTo(Records, MaxRecords) : DistinctPaths(d) }
    /\ json_file = <<>>
    /\ md_file = <<>>
    /\ txt_file = <<>>
    /\ wpc = "json"

IdleSer ==
    /\ data = <<>>
    /\ json_file = <<>>
    /\ md_file = <<>>
    /\ txt_file = <<>>
    /\ wpc = "json"

\* write_to_json(data), the write succeeding.
WriteJson ==
    /\ wpc = "json"
    /\ json_file' = JsonDump(data)
    /\ wpc' = "md"
    /\ UNCHANGED <<data, md_file, txt_file>>

\* write_to_markdown(data), the write succeeding.
WriteMarkdown ==
    /\ wpc = "md"
    /\ md_file' = MarkdownText(repo_name, data)
    /\ wpc' = "txt"
    /\ UNCHANGED <<data, json_file, txt_file>>

\* write_to_txt(data), the write succeeding.
WriteTxt ==
    /\ wpc = "txt"
    /\ txt_file' = TxtText(repo_name, data)
    /\ wpc' = "done"
    /\ UNCHANGED <<data, json_file, md_file>>

\* ------------------------------------------------------------ get_repo_name

MaxUrlLen == 4

LowerLetters == { "a", "b", "c", "d", "e", "f", "g", "h", "i", "j", "k", "l", "m", "n", "o", "p", "q", "r", "s", "t", "u", "v", "w", "x", "y", "z" }
UpperLetters == { "A", "B", "C", "D", "E", "F", "G", "H", "I", "J", "K", "L", "M", "N", "O", "P", "Q", "R", "S", "T", "U", "V", "W", "X", "Y", "Z" }
Digits == { "0", "1", "2", "3", "4", "5", "6", "7", "8", "9" }

\* urllib.parse.scheme_chars
SchemeChars == LowerLetters \cup UpperLetters \cup Digits \cup {"+", "-", "."}

\* urllib.parse.uses_params
UsesParams == { <<>>,
                <<"f", "t", "p">>,
                <<"h", "d", "l">>,
                <<"p", "r", "o", "s", "p", "e", "r", "o">>,
                <<"h", "t", "t", "p">>,
                <<"i", "m", "a", "p">>,
                <<"h", "t", "t", "p", "s">>,
                <<"s", "h", "t", "t", "p">>,
                <<"r", "t", "s", "p">>,
                <<"r", "t", "s", "p", "u">>,
                <<"s", "i", "p">>,
                <<"s", "i", "p", "s">>,
                <<"m", "m", "s">>,
                <<"s", "f", "t", "p">>,
                <<"t", "e", "l">> }

\* str.lower() of one character.
LowerChar(c) ==
    LET up == <<"A", "B", "C", "D", "E", "F", "G", "H", "I", "J", "K", "L", "M", "N", "O", "P", "Q", "R", "S", "T", "U", "V", "W", "X", "Y", "Z">>
        lo == <<"a", "b", "c", "d", "e", "f", "g", "h", "i", "j", "k", "l", "m", "n", "o", "p", "q", "r", "s", "t", "u", "v", "w", "x", "y", "z">>
        at == { i \in 1..Len(up) : up[i] = c }
    IN  IF at = {} THEN c ELSE lo[CHOOSE i \in at : TRUE]

Lower(s) == [i \in 1..Len(s) |-> LowerChar(s[i])]

\* The first part of urlsplit: a leading `scheme:` is split off when the text
\* before the first ':' is non-empty, starts with a letter and holds only
\* scheme characters.
SplitScheme(url) ==
    LET i == Find(url, ":", 1)
    IN  IF /\ i > 1
           /\ url[1] \in LowerLetters \cup UpperLetters
           /\ \A k \in 1..(i - 1) : url[k] \in SchemeChars
        THEN [scheme |-> Lower(SubSeq(url, 1, i - 1)), rest |-> SubSeq(url, i + 1, Len(url))]
        ELSE [scheme |-> <<>>, rest |-> url]

\* _splitnetloc(url, 2): the text between the leading '//' and the first of
\* '/', '?', '#'.
SplitNetloc(url) ==
    LET ends == { i \in 3..Len(url) : url[i] \in {"/", "?", "#"} }
        delim == IF ends = {} THEN Len(url) + 1
                 ELSE CHOOSE i \in ends : \A j \in ends : i <= j
    IN  [netloc |-> SubSeq(url, 3, delim - 1), rest |-> SubSeq(url, delim, Len(url))]

\* urlsplit's check of the netloc: raise ValueError("Invalid IPv6 URL").
InvalidNetloc(netloc) ==
    \/ Has(netloc, "[") /\ ~Has(netloc, "]")
    \/ Has(netloc, "]") /\ ~Has(netloc, "[")

\* s.split(c, 1)[0]: the text before the first c, all of s when there is none.
Before(s, c) ==
    LET i == Find(s, c, 1) IN IF i = 0 THEN s ELSE SubSeq(s, 1, i - 1)

\* _splitparams(url)[0]
SplitParams(url) ==
    LET i == IF Has(url, "/") THEN Find(url, ";", RFind(url, "/")) ELSE Find(url, ";", 1)
    IN  IF i = 0 THEN url ELSE SubSeq(url, 1, i - 1)

\* urlparse(url): whether it raises, and the path component.
UrlParse(url) ==
    LET s == SplitScheme(url)
        hasNetloc == Len(s.rest) >= 2 /\ SubSeq(s.rest, 1, 2) = <<"/", "/">>
        n == IF hasNetloc THEN SplitNetloc(s.rest) ELSE [netloc |-> <<>>, rest |-> s.rest]
        path == Before(Before(n.rest, "#"), "?")
    IN  IF hasNetloc /\ InvalidNetloc(n.netloc)
        THEN [raises |-> TRUE, path |-> <<>>]
        ELSE [raises |-> FALSE,
              path |-> IF s.scheme \in UsesParams /\ Has(path, ";")
                       THEN SplitParams(path) ELSE path]

\* get_repo_name: os.path.basename(urlparse(self.repo_url).path)
get_repo_name(url) == Basename(UrlParse(url).path)

\* f"{self.repo_name}.json", ".md", ".txt"
OutputFile(name, ext) == name \o <<".">> \o ext

\* The characters the location strings are built from: a letter and the
\* delimiters urlparse looks for (no ']', so that no bracketed host is formed).
UrlChars == {"r", ":", "/", "[", "?", ";"}

ExampleUrl == <<"h", "t", "t", "p", "s", ":", "/", "/", "e", "x", "a", "m", "p", "l", "e", ".", "c", "o", "m", "/", "o", "r", "g", "/", "m", "y", "r", "e", "p", "o">>

\* A scheme in capitals with parameters, and an scp-like location.
UpperUrl == <<"H", "T", "T", "P", "S", ":", "/", "/", "h", "/", "r", ";", "x">>
ScpUrl == <<"g", "i", "t", "@", "g", "i", "t", "h", "u", "b", ".", "c", "o", "m", ":", "o", "r", "g", "/", "r", "e", "p", "o", ".", "g", "i", "t">>

Urls == (SeqsUpTo(UrlChars, MaxUrlLen) \ { <<>> }) \cup {ExampleUrl, UpperUrl, ScpUrl}

InitName ==
    /\ repo_url \in Urls
    /\ repo_name = <<>>
    /\ ctor = "new"

IdleName ==
    /\ repo_url = <<"r">>
    /\ repo_name = <<"r">>
    /\ ctor = "ok"

\* GitRepoToJson(repo_url): __init__ stores the fields and calls get_repo_name.
Construct ==
    /\ ctor = "new"
    /\ IF UrlParse(repo_url).raises
       THEN ctor' = "ValueError" /\ UNCHANGED repo_name
       ELSE ctor' = "ok" /\ repo_name' = get_repo_name(repo_url)
    /\ UNCHANGED repo_url

\* --------------------------------------------------------- specifications

\* run() on one object, any number of times up to MaxRuns.
Init == InitRun /\ IdleScan /\ IdleSer /\ IdleName

Next ==
    \/ RunBegin /\ UNCHANGED <<scanVars, serVars, nameVars>>
    \/ clone_repo /\ UNCHANGED <<scanVars, serVars, nameVars>>
    \/ RunParse /\ UNCHANGED <<scanVars, serVars, nameVars>>
    \/ write_to_json /\ UNCHANGED <<scanVars, serVars, nameVars>>
    \/ write_to_markdown /\ UNCHANGED <<scanVars, serVars, nameVars>>
    \/ write_to_txt /\ UNCHANGED <<scanVars, serVars, nameVars>>
    \/ clean_up /\ UNCHANGED <<scanVars, serVars, nameVars>>

Spec == Init /\ [][Next]_vars

\* parse_files on every tree within the bounds.
ScanInit == InitRun /\ InitScan /\ IdleSer /\ IdleName

ScanNext == ParseFiles /\ UNCHANGED <<runVars, serVars, nameVars>>

SpecScan == ScanInit /\ [][ScanNext]_vars

\* The three serializers on every scan result within the bounds.
SerInit == InitRun /\ IdleScan /\ InitSer /\ IdleName

SerNext ==
    \/ WriteJson /\ UNCHANGED <<runVars, scanVars, nameVars>>
    \/ WriteMarkdown /\ UNCHANGED <<runVars, scanVars, nameVars>>
    \/ WriteTxt /\ UNCHANGED <<runVars, scanVars, nameVars>>

SpecSer == SerInit /\ [][SerNext]_vars

\* The constructor on every location string within the bounds.
NameInit == InitRun /\ IdleScan /\ IdleSer /\ InitName

NameNext == Construct /\ UNCHANGED <<runVars, scanVars, serVars>>

SpecName == NameInit /\ [][NameNext]_vars

\* ------------------------------------------------- claims about run()

Range(s) == { s[i] : i \in 1..Len(s) }

Serializers == {"write_to_json", "write_to_markdown", "write_to_txt"}

AllCalls == <<"clone_repo", "parse_files", "write_to_json", "write_to_markdown",
              "write_to_txt", "clean_up">>

\* run() has returned or raised.
Terminated == pc = "done"

\* clone_repo raised in the current run.
FetchFailed == Len(met) >= 1 /\ met[1] # "none"

\* What the try block of the current run gives when clean_up adds nothing.
StageOutcome == IF raised = "none" THEN "ok" ELSE raised

\* C1: every run() that has terminated executed clean_up, and when clone_repo
\* had allocated the temporary directory, clean_up handed it to rmtree,
\* whichever stage ended the run.
C1_CleanupOnEveryExit ==
    Terminated =>
        /\ calls # <<>>
        /\ calls[Len(calls)] = "clean_up"
        /\ (newdir # 0 => newdir \in rmtreed)

\* C2: parse_files is invoked only after clone_repo returned, the serializers
\* only after parse_files returned; a run whose clone_repo failed invokes
\* neither, writes nothing, runs clean_up and gives its caller the fetch error.
C2_StagePrecedence ==
    /\ \A i \in 1..Len(calls) :
          /\ calls[i] = "parse_files" =>
                i = 2 /\ calls[1] = "clone_repo" /\ met[1] = "none"
          /\ calls[i] \in Serializers =>
                i > 2 /\ calls[2] = "parse_files" /\ met[2] = "none"
    /\ FetchFailed =>
          /\ "parse_files" \notin Range(calls)
          /\ Range(calls) \cap Serializers = {}
          /\ artifacts = {}
          /\ (Terminated => "clean_up" \in Range(calls) /\ outcome = met[1])

\* The first run() of a freshly constructed object.
FirstRun == runs = 1

\* The first run() of an object satisfies C1: self.repo is still bound when
\* clean_up reads it, so every exit path reaches rmtree.
FirstRunCleanup == FirstRun => C1_CleanupOnEveryExit

\* The first run() of an object satisfies C2: a failed clone_repo reaches the
\* caller as the fetch error.
FirstRunPrecedence == FirstRun => C2_StagePrecedence

\* The writes of the current run met only write errors (or none).
OnlyWriteErrors ==
    /\ Len(met) >= 3
    /\ \A i \in 3..Len(met) : met[i] \in {"none", "OSError", "UnicodeEncodeError"}

\* C3: whichever of the three writes fail with a write error, a terminated run
\* invoked all three serializers, wrote the artifact of each one whose write
\* did not fail, ran clean_up and completed normally.
C3_WriteFailuresIsolated ==
    (Terminated /\ OnlyWriteErrors) =>
        /\ calls = AllCalls
        /\ Len(met) = 5
        /\ "json" \in artifacts <=> met[3] = "none"
        /\ "md" \in artifacts <=> met[4] = "none"
        /\ "txt" \in artifacts <=> met[5] = "none"
        /\ failed = {"json", "md", "txt"} \ artifacts
        /\ outcome = "ok"

\* A run in which the JSON and TXT writes failed and Markdown was written.
C3_Witness ==
    /\ Terminated
    /\ met = <<"none", "none", "OSError", "none", "UnicodeEncodeError">>
    /\ artifacts = {"md"}
    /\ outcome = "ok"

\* C10: on every invocation of run() on the same object, clean_up returns
\* without raising, hands the directory that invocation allocated to rmtree,
\* and the run gives its caller the outcome of its own stages.
C10_RerunSafe ==
    Terminated =>
        /\ outcome # "AttributeError"
        /\ outcome = StageOutcome
        /\ (newdir # 0 => rmtreed = {newdir})

\* ------------------------------------------ claims about parse_files

\* No component of the file's location starts with '.'.
Eligible(p) == \A k \in 1..Len(p) : ~StartsWith(p[k], ".")

\* C4: no record is for a file whose name starts with '.' or that lies below
\* a directory whose name starts with '.', and every other file of the tree
\* has exactly one record.
C4_HiddenExcluded ==
    scanned =>
        /\ Len(sources) = Len(file_list)
        /\ \A i \in 1..Len(file_list) :
              /\ sources[i] \in tree
              /\ Eligible(sources[i])
              /\ file_list[i].filename = sources[i][Len(sources[i])]
              /\ ~StartsWith(file_list[i].filename, ".")
        /\ \A p \in tree :
              Eligible(p) => Cardinality({ i \in 1..Len(sources) : sources[i] = p }) = 1

\* A scanned tree holding a hidden file, a file below a hidden directory and a
\* file below a plain directory, with a record for the last alone.
C4_Witness ==
    /\ scanned
    /\ \E p, q, r \in tree :
          /\ Len(p) = 1 /\ StartsWith(p[1], ".")
          /\ Len(q) = 2 /\ StartsWith(q[1], ".") /\ ~StartsWith(q[2], ".")
          /\ Len(r) = 2 /\ Eligible(r)
          /\ sources = <<r>>

\* C5: the paths of the records of one scan are pairwise distinct.
C5_PathsDistinct == scanned => DistinctPaths(file_list)

\* The text of s after its last '/', all of s when it holds none.
AfterLastSlash(s) ==
    CHOOSE t \in { SubSeq(s, k, Len(s)) : k \in 1..(Len(s) + 1) } :
        /\ ~Has(t, "/")
        /\ Len(t) = Len(s) \/ s[Len(s) - Len(t)] = "/"

\* C6: every record's filename is the text of its path after the last '/'.
C6_FilenameIsLastSegment ==
    scanned => \A i \in 1..Len(file_list) :
                  file_list[i].filename = AfterLastSlash(file_list[i].path)

\* C7: a file that cannot be read still gets exactly one record, with its
\* filename and path and an empty content, and one warning; every other
\* record is what the scan of the same tree with all files readable gives.
C7_ReadFailureContained ==
    scanned =>
        LET readable == parse_files(tree, {})
        IN  /\ Len(file_list) = Len(readable)
            /\ \A i \in 1..Len(file_list) :
                  /\ file_list[i].filename = readable[i].filename
                  /\ file_list[i].path = readable[i].path
                  /\ file_list[i].content =
                        IF sources[i] \in unreadable THEN <<>> ELSE readable[i].content
            /\ Range(warnings) = { p \in unreadable : Eligible(p) }
            /\ Len(warnings) = Cardinality({ p \in unreadable : Eligible(p) })

\* A scan with an unreadable file followed by a readable one.
C7_Witness ==
    /\ scanned
    /\ Len(file_list) >= 2
    /\ sources[1] \in unreadable
    /\ file_list[1].content = <<>>
    /\ warnings = << sources[1] >>
    /\ file_list[2].content = DiskContent

\* ------------------------------------------ claims about the serializers

\* The elements of a set of numbers in increasing order.
Sorted(S) ==
    [i \in 1..Cardinality(S) |-> CHOOSE x \in S : Cardinality({ y \in S : y < x }) = i - 1]

\* text.split("\n")
SplitLines(s) ==
    LET nl == Sorted({ i \in 1..Len(s) : s[i] = "\n" })
        from(k) == IF k = 1 THEN 1 ELSE nl[k - 1] + 1
        to(k) == IF k = Len(nl) + 1 THEN Len(s) ELSE nl[k] - 1
    IN  [k \in 1..(Len(nl) + 1) |-> SubSeq(s, from(k), to(k))]

HasPrefix(line, pre) == Len(line) >= Len(pre) /\ SubSeq(line, 1, Len(pre)) = pre

Fence == <<BQ, BQ, BQ>>

RECURSIVE MdFold(_, _, _, _)
\* The table lines among ls[k..], given whether a fence is open before ls[k]
\* and the table lines found so far.
MdFold(ls, k, fence, rows) ==
    IF k > Len(ls) THEN rows
    ELSE IF fence THEN MdFold(ls, k + 1, ls[k] # Fence, rows)
    ELSE IF HasPrefix(ls[k], Fence) THEN MdFold(ls, k + 1, TRUE, rows)
    ELSE IF HasPrefix(ls[k], <<"|", " ">>) THEN MdFold(ls, k + 1, FALSE, Append(rows, ls[k]))
    ELSE MdFold(ls, k + 1, FALSE, rows)

\* The table lines of a Markdown document: the lines starting with "| " that
\* are outside fenced code blocks.  A fence opens at a line starting with
\* three backquotes and closes at a line of three backquotes.
MdTableLines(doc) == MdFold(SplitLines(doc), 1, FALSE, <<>>)

\* The rows of the table: its lines after the head and the rule.
MdRows(doc) == LET t == MdTableLines(doc) IN SubSeq(t, 3, Len(t))

\* The row of one record.
MdRowOf(item) ==
    <<"|", " ">> \o item.filename \o <<" ", "|", " ">> \o item.path \o <<" ", "|", " ">>

\* The labeled blocks of a TXT document: each place where a "Filename: " line
\* is followed by a "Path: " line and a "Content:" line, as (filename, path).
TxtBlocks(doc) ==
    LET ls == SplitLines(doc)
        at == Sorted({ k \in 1..(Len(ls) - 2) :
                         /\ HasPrefix(ls[k], TxtFilename)
                         /\ HasPrefix(ls[k + 1], TxtPath)
                         /\ ls[k + 2] = <<"C", "o", "n", "t", "e", "n", "t", ":">> })
    IN  [i \in 1..Len(at) |->
            [filename |-> SubSeq(ls[at[i]], Len(TxtFilename) + 1, Len(ls[at[i]])),
             path |-> SubSeq(ls[at[i] + 1], Len(TxtPath) + 1, Len(ls[at[i] + 1]))]]

\* The number of backslashes that end right before position i of s.
BackslashRun(s, i) ==
    LET stop == { j \in 1..(i - 1) : s[j] # "\\" }
        last == IF stop = {} THEN 0 ELSE CHOOSE j \in stop : \A k \in stop : k <= j
    IN  i - 1 - last

\* A JSON string body unescaped: a backslash after an even run of backslashes
\* introduces an escape and is dropped, and `n` after it is a line feed.
JsonUnescape(raw) ==
    LET intro(p) == raw[p] = "\\" /\ BackslashRun(raw, p) % 2 = 0
        keep == Sorted({ p \in 1..Len(raw) : ~intro(p) })
    IN  [i \in 1..Len(keep) |->
            IF keep[i] > 1 /\ intro(keep[i] - 1) /\ raw[keep[i]] = "n"
            THEN "\n" ELSE raw[keep[i]]]

\* The string literals of a JSON document, unescaped, and the number of
\* objects it opens outside string literals.  A quote delimits a literal when
\* an even run of backslashes precedes it.
JsonScan(doc) ==
    LET quotes == Sorted({ i \in 1..Len(doc) : doc[i] = "\"" /\ BackslashRun(doc, i) % 2 = 0 })
        inside(i) == Cardinality({ k \in 1..Len(quotes) : quotes[k] < i }) % 2 = 1
    IN  [strs |-> [m \in 1..(Len(quotes) \div 2) |->
                      JsonUnescape(SubSeq(doc, quotes[2 * m - 1] + 1, quotes[2 * m] - 1))],
         objs |-> Cardinality({ i \in 1..Len(doc) : doc[i] = "{" /\ ~inside(i) })]

\* The records of a JSON document: of each object's six string literals (three
\* keys, three values) the values.
JsonRecords(doc) ==
    LET j == JsonScan(doc)
    IN  [i \in 1..j.objs |-> [filename |-> j.strs[6 * (i - 1) + 2],
                              path |-> j.strs[6 * (i - 1) + 4],
                              content |-> j.strs[6 * (i - 1) + 6]]]

Ident(item) == [filename |-> item.filename, path |-> item.path]

\* C8: for every scan result the JSON document has one entry, the Markdown
\* table one row and the TXT document one labeled block per record, in scan
\* order.
C8_CrossEncodingConsistent ==
    wpc = "done" =>
        /\ JsonRecords(json_file) = data
        /\ MdRows(md_file) = [i \in 1..Len(data) |-> MdRowOf(data[i])]
        /\ TxtBlocks(txt_file) = [i \in 1..Len(data) |-> Ident(data[i])]

\* --------------------------------------------- claims about get_repo_name

MyRepo == <<"m", "y", "r", "e", "p", "o">>

\* C9: for every non-empty location the constructor returns without raising,
\* repo_name is the text after the last '/' of the location's path component
\* and holds no '/', the three artifacts are named after it, and the example
\* location resolves to myrepo.
C9_RepoNameResolved ==
    ctor # "new" =>
        /\ ctor = "ok"
        /\ repo_name = AfterLastSlash(UrlParse(repo_url).path)
        /\ ~Has(repo_name, "/")
        /\ OutputFile(repo_name, <<"m", "d">>) = repo_name \o <<".", "m", "d">>
        /\ (repo_url = ExampleUrl => repo_name = MyRepo)

====
